---- MODULE Spec2Model ----
(***************************************************************************)
(* Model of photo_reports/timestamp_works.py: the timestamp allocator for  *)
(* leaf folders (process_folder, generate_timestamps) and for incidents    *)
(* (process_incident, generate_duration_timestamps), the prefix grouper,   *)
(* the day-rollover loop, and the exceptions that leave main; of two runs  *)
(* of main on one folder tree; of generate_random_time of                  *)
(* timestamp_days.py; and of download_photos of downloader.py.             *)
(*                                                                         *)
(* File names are sequences of one-character strings.  Times are integer   *)
(* seconds.  A visual difference is a rational d / DiffDen given by its    *)
(* numerator d.  Python's float arithmetic is modelled by exact rational   *)
(* arithmetic plus a rounding error of unknown sign on every inexact       *)
(* operation (see IntOf and Walks).                                        *)
(***************************************************************************)
EXTENDS Integers, Sequences, FiniteSets, TLC

VARIABLES
    cfg,                 \* config.json: START_TIME, DURATION_BEFORE_WORKS, DURATION
    op,                  \* what was called last: "none", "folder", "incident", or
                         \* the name of a function called on its own
    outcome,             \* how that handler ended (its log message)
    listing,             \* os.listdir of the folder (of each sub-folder, for an incident)
    folder_date,         \* the DD.MM.YYYY found in the folder name, or NoDate
    vd,                  \* visual difference of consecutive shots (numerators)
    draws,               \* the random.randint(-1800, 1800) results, in call order
    grouped,             \* the grouped candidates (per sub-folder, for an incident)
    images,              \* start_images, before_images, duration_images of an incident
    alloc,               \* locals of the allocation: anchors, walked list, returned list
    calls,               \* the process_image calls, in call order
    raised,              \* the exception that has left main, or "none"
    \* downloader.py
    topics,              \* messages_list of every topic of the configuration
    loaded,              \* what load_downloaded_photos returned
    downloaded_photos,   \* the keys of the dictionary downloaded_photos
    record_file,         \* the keys saved in downloaded_photos.json
    disk,                \* the files that exist under downloads/
    dl_pc,               \* where download_photos is
    topic_idx,           \* the topic of the outer loop, counted from 1
    msg_idx,             \* the message of the inner loop, 0 outside that loop
    trace,               \* per file path: what was done for its message, in order
    \* two runs of main on one folder tree
    tree,                \* the files of the leaf folder
    runs,                \* per run: where it is, its process_image calls, the next one
    overlapped,          \* a run took a step while the other was under way
    lost,                \* remove_stamped_images of a run deleted an output of the other
    written              \* the (output name, run) pairs of the outputs written

\* the variables of downloader.py
download_vars ==
    <<topics, loaded, downloaded_photos, record_file, disk, dl_pc, topic_idx, msg_idx,
      trace>>

\* the variables of the two runs
runs_vars == <<tree, runs, overlapped, lost, written>>

\* the variables of one run on its own
single_vars ==
    <<cfg, op, outcome, listing, folder_date, vd, draws, grouped, images, alloc, calls,
      raised>>

\* the variables the handlers of one run leave alone
elsewhere == <<download_vars, runs_vars>>

vars == <<cfg, op, outcome, listing, folder_date, vd, draws,
          grouped, images, alloc, calls, raised, elsewhere>>

----------------------------------------------------------------------------
(* Bounds of the model *)

\* files in one leaf folder listing
MaxFiles == 3
\* images in one direct call of generate_timestamps
MaxImages == 4
\* files in one sub-folder listing of an incident
MaxSubFiles == 2
\* paths in one direct call of group_by_prefix
MaxCandidates == 3
\* messages in one topic
MaxMessages == 2

(* Program constants *)

\* random.randint(-1800, 1800)
JitterBound == 1800
\* seconds per day in the rollover loops
DaySeconds == 86400
\* denominator of the visual differences: 1.0 is DiffDen / DiffDen
DiffDen == 10

----------------------------------------------------------------------------
(* Input sets *)

\* jitter values tried: both ends of the range and its middle
JitterChoices == {-JitterBound, 0, JitterBound}

\* numerators of the visual differences tried: 0.0, 0.2, 0.8
DiffValues == {0, 2, 8}

\* config.json files tried; an "HH:MM:SS" string is <<HH, MM, SS>>.  INCIDENT_POLICY
\* is a key the file may carry to ask for an allocation policy: the module reads
\* START_TIME, DURATION_BEFORE_WORKS and DURATION and never this key
Config(start, before, duration, policy) ==
    [START_TIME |-> start, DURATION_BEFORE_WORKS |-> before, DURATION |-> duration,
     LOCATIONS |-> <<"site">>, INCIDENT_POLICY |-> policy]
Configs ==
    {Config(<<8, 0, 0>>, <<0, 0, 0>>, <<1, 0, 0>>, "stage_typed"),
     Config(<<8, 0, 0>>, <<1, 0, 0>>, <<1, 0, 0>>, "flat_concatenation"),
     Config(<<8, 0, 0>>, <<0, 10, 0>>, <<0, 10, 0>>, "flat_concatenation"),
     Config(<<23, 30, 0>>, <<0, 10, 0>>, <<1, 0, 0>>, "stage_typed"),
     Config(<<0, 10, 0>>, <<0, 10, 0>>, <<0, 10, 0>>, "stage_typed"),
     \* START_TIME "08:00" and DURATION "1:00:00:00"
     Config(<<8, 0>>, <<0, 10, 0>>, <<1, 0, 0>>, "stage_typed"),
     Config(<<8, 0, 0>>, <<0, 10, 0>>, <<1, 0, 0, 0>>, "stage_typed")}

\* the text \d{2}\.\d{2}\.\d{4} finds in a folder name, as <<DD, MM, YYYY>>; NoDate when
\* there is none; 31.02.2024 has the form and is no calendar date
NoDate == <<>>
FolderDates == {NoDate, <<5, 3, 2024>>, <<31, 2, 2024>>}

\* file names of a leaf folder
f_1_a_jpg == <<"1", "_", "a", ".", "j", "p", "g">>
f_1_bb_jpg == <<"1", "_", "b", "b", ".", "j", "p", "g">>
f_2_a_jpg == <<"2", "_", "a", ".", "j", "p", "g">>
f_x_jpg == <<"x", ".", "j", "p", "g">>
f_X_PNG == <<"X", ".", "P", "N", "G">>
LeafPool == {f_1_a_jpg, f_1_bb_jpg, f_2_a_jpg, f_x_jpg, f_X_PNG}

\* file names of the sub-folders of an incident, by the place of the sub-folder
f_1_2_c_jpg == <<"1", "_", "2", "_", "c", ".", "j", "p", "g">>
SubPool(idx) ==
    IF idx = 0 THEN {f_1_a_jpg, f_x_jpg}
    ELSE IF idx = 1 THEN {f_1_a_jpg, f_1_2_c_jpg, f_2_a_jpg, f_x_jpg}
    ELSE {f_2_a_jpg, f_x_jpg}

\* sub-folders of one incident
SubCounts == {1, 2, 3}

\* file names handed to the grouper on its own
f_12_a_jpg == <<"1", "2", "_", "a", ".", "j", "p", "g">>
f_12_b_jpg == <<"1", "2", "_", "b", ".", "j", "p", "g">>
f_12_longer_jpg == <<"1", "2", "_", "l", "o", "n", "g", "e", "r", ".", "j", "p", "g">>
f_7_jpg == <<"7", ".", "j", "p", "g">>
f__a_jpg == <<"_", "a", ".", "j", "p", "g">>
f__bb_jpg == <<"_", "b", "b", ".", "j", "p", "g">>
GroupPool ==
    {f_12_a_jpg, f_12_b_jpg, f_12_longer_jpg, f_7_jpg, f__a_jpg, f__bb_jpg, f_x_jpg}

\* raw timestamps handed to the day rollover on its own
RawTimes ==
    {-86400, -1200, -1, 0, 500, 86399, 86400, 86401, 90000, 172799, 172800, 200000,
     259200}

\* the sequences without repetition of at most n elements of S
Listings(S, n) ==
    UNION {{s \in [1..k -> S] : \A i, j \in 1..k : i # j => s[i] # s[j]} : k \in 0..n}

----------------------------------------------------------------------------
(* Strings *)

Digits == {"0", "1", "2", "3", "4", "5", "6", "7", "8", "9"}

\* str.lower() on one character
LowerChar(c) ==
    CASE c = "X" -> "x" [] c = "P" -> "p" [] c = "N" -> "n" [] c = "G" -> "g"
      [] c = "J" -> "j" [] c = "S" -> "s" [] c = "T" -> "t" [] c = "A" -> "a"
      [] c = "M" -> "m" [] c = "E" -> "e" [] c = "D" -> "d"
      [] OTHER -> c

Lower(s) == [i \in 1..Len(s) |-> LowerChar(s[i])]

EndsWith(s, suffix) ==
    /\ Len(s) >= Len(suffix)
    /\ SubSeq(s, Len(s) - Len(suffix) + 1, Len(s)) = suffix

Contains(s, sub) ==
    \E i \in 1..(Len(s) - Len(sub) + 1) : SubSeq(s, i, i + Len(sub) - 1) = sub

ext_jpg == <<".", "j", "p", "g">>
ext_jpeg == <<".", "j", "p", "e", "g">>
ext_png == <<".", "p", "n", "g">>
s_stamped == <<"_", "s", "t", "a", "m", "p", "e", "d">>

\* the filter without its "_stamped" test
IsCandidate_by_extension(f) ==
    \E e \in {ext_jpg, ext_jpeg, ext_png} : EndsWith(Lower(f), e)

\* the filter of the candidates comprehension
IsCandidate(f) ==
    /\ \E e \in {ext_jpg, ext_jpeg, ext_png} : EndsWith(Lower(f), e)
    /\ ~Contains(Lower(f), s_stamped)

\* [x for x in s if P(x)]
RECURSIVE FilterCandidates(_)
FilterCandidates(s) ==
    IF s = <<>> THEN <<>>
    ELSE (IF IsCandidate(Head(s)) THEN <<Head(s)>> ELSE <<>>) \o FilterCandidates(Tail(s))

\* length of the match of ^([\d_]+) in s from position i on
RECURSIVE RunLen(_, _)
RunLen(s, i) ==
    IF i > Len(s) \/ s[i] \notin (Digits \cup {"_"}) THEN i - 1 ELSE RunLen(s, i + 1)

\* str.rstrip('_')
RECURSIVE RStrip(_)
RStrip(s) ==
    IF s # <<>> /\ s[Len(s)] = "_" THEN RStrip(SubSeq(s, 1, Len(s) - 1)) ELSE s

\* the prefix key of a file name
Prefix(filename) ==
    IF RunLen(filename, 1) > 0
    THEN RStrip(SubSeq(filename, 1, RunLen(filename, 1)))
    ELSE filename

\* one iteration of the grouping loop; groups is the dict as the sequence of its
\* items in insertion order
GroupStep(groups, file) ==
    IF \E i \in 1..Len(groups) : groups[i].prefix = Prefix(file)
    THEN [i \in 1..Len(groups) |->
            IF groups[i].prefix = Prefix(file) /\ Len(file) > Len(groups[i].file)
            THEN [prefix |-> groups[i].prefix, file |-> file]
            ELSE groups[i]]
    ELSE Append(groups, [prefix |-> Prefix(file), file |-> file])

RECURSIVE GroupFold(_, _)
GroupFold(groups, candidates) ==
    IF candidates = <<>> THEN groups
    ELSE GroupFold(GroupStep(groups, Head(candidates)), Tail(candidates))

\* os.path.join(folder, f) and os.path.basename(path)
Join(folder, f) == [folder |-> folder, file |-> f]
Basename(path) == path.file

\* a stored path replaced by a filename that is as long, not only by a longer one
PathGroupStep_geq(groups, path) ==
    IF \E i \in 1..Len(groups) : groups[i].prefix = Prefix(Basename(path))
    THEN [i \in 1..Len(groups) |->
            IF /\ groups[i].prefix = Prefix(Basename(path))
               /\ Len(Basename(path)) >= Len(Basename(groups[i].path))
            THEN [prefix |-> groups[i].prefix, path |-> path]
            ELSE groups[i]]
    ELSE Append(groups, [prefix |-> Prefix(Basename(path)), path |-> path])

\* the longer file stored under the key added last instead of its own
PathGroupStep_last(groups, path) ==
    IF \E i \in 1..Len(groups) : groups[i].prefix = Prefix(Basename(path))
    THEN [i \in 1..Len(groups) |->
            IF /\ i = Len(groups)
               /\ \E j \in 1..Len(groups) :
                     /\ groups[j].prefix = Prefix(Basename(path))
                     /\ Len(Basename(path)) > Len(Basename(groups[j].path))
            THEN [prefix |-> groups[i].prefix, path |-> path]
            ELSE groups[i]]
    ELSE Append(groups, [prefix |-> Prefix(Basename(path)), path |-> path])

\* one iteration of the loop of group_by_prefix, over paths
PathGroupStep(groups, path) ==
    IF \E i \in 1..Len(groups) : groups[i].prefix = Prefix(Basename(path))
    THEN [i \in 1..Len(groups) |->
            IF /\ groups[i].prefix = Prefix(Basename(path))
               /\ Len(Basename(path)) > Len(Basename(groups[i].path))
            THEN [prefix |-> groups[i].prefix, path |-> path]
            ELSE groups[i]]
    ELSE Append(groups, [prefix |-> Prefix(Basename(path)), path |-> path])

RECURSIVE PathGroupFold(_, _)
PathGroupFold(groups, candidates) ==
    IF candidates = <<>> THEN groups
    ELSE PathGroupFold(PathGroupStep(groups, Head(candidates)), Tail(candidates))

\* list(groups.values()): the values in insertion order of their keys
group_by_prefix(candidates) ==
    [i \in 1..Len(PathGroupFold(<<>>, candidates)) |->
        PathGroupFold(<<>>, candidates)[i].path]

----------------------------------------------------------------------------
(* Arithmetic *)

time_to_seconds(time_str) == time_str[1] * 3600 + time_str[2] * 60 + time_str[3]

\* "h, m, s = map(int, time_str.split(':'))" raises ValueError unless there are
\* three fields
Parses(time_str) == Len(time_str) = 3

\* DURATION parsed only when the main window is split, after the jitter draws
TimesParse_lazy(config) ==
    /\ Parses(config.START_TIME)
    /\ Parses(config.DURATION_BEFORE_WORKS)

\* the three time_to_seconds calls of a handler return
TimesParse(config) ==
    /\ Parses(config.START_TIME)
    /\ Parses(config.DURATION_BEFORE_WORKS)
    /\ Parses(config.DURATION)

RECURSIVE SumSeq(_)
SumSeq(s) == IF s = <<>> THEN 0 ELSE Head(s) + SumSeq(Tail(s))

\* p / q truncated towards zero, q > 0
Trunc(p, q) == IF p >= 0 THEN p \div q ELSE -((-p) \div q)

\* int(x) of the float x that holds the real p / q with a rounding error of sign e:
\* the error is far smaller than any fraction the model can build, so it shows only
\* where p / q is an integer
IntOf(p, q, e) ==
    IF p % q # 0 THEN Trunc(p, q)
    ELSE IF e < 0 /\ p > 0 THEN (p \div q) - 1
    ELSE IF e > 0 /\ p < 0 THEN (p \div q) + 1
    ELSE p \div q

\* the error signs the floats of a walk can carry: adding 0.0 keeps the float,
\* adding an exact gap to an exact float is exact, any other addition rounds
ErrSigns(nums, inexact) ==
    {es \in [1..Len(nums) -> {-1, 0, 1}] :
        \A k \in 1..Len(nums) :
            IF nums[k] = 0 THEN es[k] = (IF k = 1 THEN 0 ELSE es[k - 1])
            ELSE inexact \/ es[k] = 0}

\* the lists int(current) can give when current walks from the integer `from`
\* over the gaps nums[k] / den
Walks(from, nums, den, inexact) ==
    {[k \in 1..Len(nums) |->
        IntOf(from * den + SumSeq(SubSeq(nums, 1, k)), den, es[k])] :
     es \in ErrSigns(nums, inexact)}

Sorted(s) == SortSeq(s, LAMBDA a, b : a < b)

----------------------------------------------------------------------------
(* Day rollover *)

\* a date is the folder's date plus a number of days
DateOf(base, days) == [base |-> base, plus |-> days]

\* process_folder's inline loop
RECURSIVE RollFolder(_, _)
RollFolder(t, current_date) ==
    IF t >= DaySeconds
    THEN RollFolder(t - DaySeconds, DateOf(current_date.base, current_date.plus + 1))
    ELSE [date |-> current_date, t |-> t]

\* the loop left at t > 86400 instead of t >= 86400
RECURSIVE adjust_timestamp_gt(_, _)
adjust_timestamp_gt(t, base_date) ==
    IF t > DaySeconds
    THEN adjust_timestamp_gt(t - DaySeconds, DateOf(base_date.base, base_date.plus + 1))
    ELSE [date |-> base_date, t |-> t]

\* the loop tested after its body instead of before
RECURSIVE adjust_timestamp_do_while(_, _)
adjust_timestamp_do_while(t, base_date) ==
    IF t - DaySeconds >= DaySeconds
    THEN adjust_timestamp_do_while(t - DaySeconds,
                                   DateOf(base_date.base, base_date.plus + 1))
    ELSE [date |-> DateOf(base_date.base, base_date.plus + 1), t |-> t - DaySeconds]

\* process_incident's nested function
RECURSIVE adjust_timestamp(_, _)
adjust_timestamp(t, base_date) ==
    IF t >= DaySeconds
    THEN adjust_timestamp(t - DaySeconds, DateOf(base_date.base, base_date.plus + 1))
    ELSE [date |-> base_date, t |-> t]

\* datetime.strptime(match, "%d.%m.%Y")
strptime(d) == DateOf(d, 0)

LeapYear(y) == (y % 4 = 0 /\ y % 100 # 0) \/ y % 400 = 0

DaysInMonth(m, y) ==
    IF m = 2 THEN (IF LeapYear(y) THEN 29 ELSE 28)
    ELSE IF m \in {4, 6, 9, 11} THEN 30 ELSE 31

\* strptime returns; it raises ValueError for a day or month out of range
ValidDate(d) ==
    /\ d[2] \in 1..12
    /\ d[1] \in 1..DaysInMonth(d[2], d[3])
    /\ d[3] >= 1

----------------------------------------------------------------------------
(* calculate_visual_difference and the two allocators *)

\* the outcome of a comparison that raises: an image that cannot be decoded, or two
\* images whose sizes stay different
Unreadable == -1

\* a comparison that raises taken as the largest difference, 1.0
calculate_visual_difference_worst(d) == IF d = Unreadable THEN DiffDen ELSE d

\* the value the comparison of two images returns: the difference measured, or 0.0
\* from the except branch
calculate_visual_difference(d) == IF d = Unreadable THEN 0 ELSE d

\* the comparisons started at the first image instead of the second
Diffs_from_first(num_images, image_vd) ==
    [k \in 1..(num_images - 2) |-> image_vd[k]]

\* diffs of generate_timestamps: image_vd[j] is the visual difference of the
\* j-th and the (j+1)-th image of image_files, counted from 1
Diffs(num_images, image_vd) ==
    [k \in 1..(num_images - 2) |-> calculate_visual_difference(image_vd[k + 1])]

\* the differences taken as fractions of 1.0 instead of their sum
TotalDiff_one(diffs) == DiffDen

\* sum(diffs) or 1
TotalDiff(diffs) == IF SumSeq(diffs) # 0 THEN SumSeq(diffs) ELSE DiffDen

\* the gaps as numerators over one denominator
Intervals(num_images, diffs, total_diff, duration) ==
    IF total_diff = 0
    THEN [nums |-> [k \in 1..(num_images - 2) |-> duration], den |-> num_images - 2]
    ELSE [nums |-> [k \in 1..Len(diffs) |-> diffs[k] * duration], den |-> total_diff]

\* (d / total_diff) * duration is computed exactly when d is 0.0 or total_diff, or
\* duration is 0, and is rounded otherwise
Inexact(diffs, total_diff, duration) ==
    duration # 0 /\ \E k \in 1..Len(diffs) : diffs[k] # 0 /\ diffs[k] # total_diff

\* the list left as it was appended: the final sort forgotten
FinalSort_none(timestamps) == timestamps

\* sorted(timestamps) and timestamps.sort()
FinalSort(timestamps) == Sorted(timestamps)

\* the results generate_timestamps can return when random.randint gives rnd[1] and
\* then rnd[2]: t1, t2, the list appended by the walk, and the returned list
generate_timestamps(num_images, start_time, duration_before, duration, image_vd, rnd) ==
    LET t1 == start_time + rnd[1]
        t2 == t1 + duration_before + rnd[2]
        diffs == Diffs(num_images, image_vd)
        total_diff == TotalDiff(diffs)
        iv == Intervals(num_images, diffs, total_diff, duration)
    IN  IF num_images = 2
        THEN {[t1 |-> t1, t2 |-> t2, rest |-> <<>>, ret |-> FinalSort(<<t1, t2>>)]}
        ELSE {[t1 |-> t1, t2 |-> t2, rest |-> w, ret |-> FinalSort(<<t1, t2>> \o w)] :
                w \in Walks(t2, iv.nums, iv.den, Inexact(diffs, total_diff, duration))}

\* random.choice(s): any element of s
random_choice(s) == {s[i] : i \in 1..Len(s)}

\* the place of the last "." of the name f, 0 when it has none
RECURSIVE LastDot(_, _)
LastDot(f, i) == IF i = 0 THEN 0 ELSE IF f[i] = "." THEN i ELSE LastDot(f, i - 1)

\* os.path.splitext(f)[0]: the name up to its last dot; leading dots start no
\* extension
splitext_root(f) ==
    IF \A i \in 1..(LastDot(f, Len(f)) - 1) : f[i] = "."
    THEN f
    ELSE SubSeq(f, 1, LastDot(f, Len(f)) - 1)

\* output_image_path of process_image for the file name f: the image is written
\* there, in the folder of f, unless the photograph cannot be opened
output_image_path(f) == splitext_root(f) \o s_stamped \o ext_png

\* output_image_path for a photograph of a sub-folder: in that sub-folder
output_path_in_subfolder(path) == Join(path.folder, output_image_path(Basename(path)))

\* zip(a, b): as many pairs as the shorter list has
ZipLen(a, b) == IF Len(a) < Len(b) THEN Len(a) ELSE Len(b)

----------------------------------------------------------------------------
(* process_folder *)

\* the inline grouping of process_folder over bare file names
GroupedFiles(candidates) ==
    [i \in 1..Len(GroupFold(<<>>, candidates)) |-> GroupFold(<<>>, candidates)[i].file]

\* the (date, t) list of process_folder
FolderTimestamps(timestamps_seconds, d) ==
    [i \in 1..Len(timestamps_seconds) |-> RollFolder(timestamps_seconds[i], strptime(d))]

\* the first pair of the zip left out
FolderCalls_but_first(grouped_files, timestamps, locations) ==
    [i \in 1..(ZipLen(grouped_files, timestamps) - 1) |->
        [path |-> grouped_files[i + 1], date |-> timestamps[i + 1].date,
         t |-> timestamps[i + 1].t, location |-> locations[i + 1]]]

\* the process_image calls of process_folder's last loop; locations[i] is what
\* random.choice(LOCATIONS) gives for the i-th call
FolderCalls(grouped_files, timestamps, locations) ==
    [i \in 1..ZipLen(grouped_files, timestamps) |->
        [path |-> grouped_files[i], date |-> timestamps[i].date, t |-> timestamps[i].t,
         location |-> locations[i]]]

NoAlloc == [t1 |-> 0, t2 |-> 0, rest |-> <<>>, ret |-> <<>>]

\* the outcomes of the comparisons of a folder of num_files shots: the first two
\* shots are never compared (range(1, num_images - 1)), their place holds 0
FolderComparisons(num_files, comparisons) ==
    {v \in [1..(num_files - 1) -> comparisons \cup {0}] : num_files >= 2 => v[1] = 0}

\* process_folder on a folder whose listing is drawn from the names of pool, at most
\* n of them, whose name holds one of dates, and whose image comparisons have their
\* outcomes in comparisons
ProcessFolderOn(pool, n, dates, comparisons) ==
    /\ op = "none"
    /\ raised = "none"
    /\ op' = "folder"
    /\ UNCHANGED <<elsewhere, cfg, images>>
    /\ \E l \in Listings(pool, n), d \in dates :
        /\ listing' = l
        /\ folder_date' = d
        /\ IF FilterCandidates(l) = <<>>
           THEN /\ outcome' = "no_candidates"
                /\ raised' = "none"
                /\ grouped' = <<>>
                /\ vd' = <<>> /\ draws' = <<>> /\ alloc' = NoAlloc /\ calls' = <<>>
           ELSE /\ grouped' = GroupedFiles(FilterCandidates(l))
                /\ IF d = NoDate
                   THEN /\ outcome' = "no_date"
                        /\ raised' = "none"
                        /\ vd' = <<>> /\ draws' = <<>> /\ alloc' = NoAlloc /\ calls' = <<>>
                   ELSE IF ~ValidDate(d) \/ ~TimesParse(cfg)
                   THEN /\ outcome' = "exception"
                        /\ raised' = "ValueError"
                        /\ vd' = <<>> /\ draws' = <<>> /\ alloc' = NoAlloc /\ calls' = <<>>
                   ELSE /\ outcome' = "stamped"
                        /\ raised' = "none"
                        /\ \E v \in FolderComparisons(Len(grouped'), comparisons),
                              rnd \in JitterChoices \X JitterChoices :
                            /\ vd' = v
                            /\ draws' = rnd
                            /\ alloc' \in generate_timestamps(Len(grouped'),
                                   time_to_seconds(cfg.START_TIME),
                                   time_to_seconds(cfg.DURATION_BEFORE_WORKS),
                                   time_to_seconds(cfg.DURATION), v, rnd)
                            /\ \E locations \in
                                     [1..Len(grouped') -> random_choice(cfg.LOCATIONS)] :
                                 calls' = FolderCalls(grouped',
                                     FolderTimestamps(alloc'.ret, d), locations)

ProcessFolder == ProcessFolderOn(LeafPool, MaxFiles, FolderDates, DiffValues)

----------------------------------------------------------------------------
(* process_incident *)

\* the window end given a jitter of its own
WindowEnd_jittered(t_before, duration) == t_before + duration + JitterBound

\* t_end of generate_duration_timestamps
WindowEnd(t_before, duration) == t_before + duration

\* diffs of generate_duration_timestamps: image_vd[j] is the visual difference of
\* the j-th and the (j+1)-th image of duration_images, counted from 1
DurationDiffs(num_duration, image_vd) ==
    [k \in 1..(num_duration - 1) |-> calculate_visual_difference(image_vd[k])]

\* the lists generate_duration_timestamps can return
generate_duration_timestamps(num_duration, t_before, duration, image_vd) ==
    LET diffs == DurationDiffs(num_duration, image_vd)
        total_diff == TotalDiff(diffs)
    IN  IF num_duration = 1
        THEN {<<WindowEnd(t_before, duration)>>}
        ELSE Walks(t_before, [k \in 1..Len(diffs) |-> diffs[k] * duration], total_diff,
                   Inexact(diffs, total_diff, duration))

\* a sub-folder: the number its name starts with, the date in its name, its files
SubFolder(number, date, files) == [number |-> number, date |-> date, files |-> files]

\* the number of a sub-folder whose name starts with no digit: re.match(r'(\d+)',
\* name) is None
NoNumber == -1

\* every key of the sort can be computed; None.group(1) raises AttributeError
Sortable(subfolders) == \A i \in 1..Len(subfolders) : subfolders[i].number # NoNumber

\* subfolders.sort(key = leading number)
SortSubfolders(subfolders) == SortSeq(subfolders, LAMBDA a, b : a.number < b.number)

\* the candidates of one sub-folder, grouped
SubCandidates(folder) ==
    group_by_prefix([i \in 1..Len(FilterCandidates(folder.files)) |->
                        Join(folder.number, FilterCandidates(folder.files)[i])])

StartsWith(s, p) == Len(s) >= Len(p) /\ SubSeq(s, 1, Len(p)) = p

NoImages == [start |-> <<>>, before |-> <<>>, duration |-> <<>>]

\* a file that is neither 1_* nor 2_* always taken as a main-window shot
Classify_other_to_duration(im, file) ==
    IF StartsWith(Basename(file), <<"1", "_">>)
    THEN [im EXCEPT !.before = Append(@, file)]
    ELSE [im EXCEPT !.duration = Append(@, file)]

\* the body of the loop over the candidates of the second sub-folder
Classify(im, file) ==
    IF StartsWith(Basename(file), <<"1", "_">>)
    THEN [im EXCEPT !.before = Append(@, file)]
    ELSE IF StartsWith(Basename(file), <<"2", "_">>)
    THEN [im EXCEPT !.duration = Append(@, file)]
    ELSE IF im.before = <<>>
    THEN [im EXCEPT !.before = Append(@, file)]
    ELSE [im EXCEPT !.duration = Append(@, file)]

RECURSIVE ClassifyAll(_, _)
ClassifyAll(im, candidates) ==
    IF candidates = <<>> THEN im
    ELSE ClassifyAll(Classify(im, Head(candidates)), Tail(candidates))

\* the body of the loop over the sub-folders; idx counts from 0
ScanStep(im, idx, candidates) ==
    IF candidates = <<>> THEN im
    ELSE IF idx = 0 THEN [im EXCEPT !.start = Append(@, candidates[1])]
    ELSE IF idx = 1 THEN ClassifyAll(im, candidates)
    ELSE [im EXCEPT !.duration = @ \o candidates]

RECURSIVE Scan(_, _, _)
Scan(im, idx, subfolders) ==
    IF idx >= Len(subfolders) THEN im
    ELSE Scan(ScanStep(im, idx, SubCandidates(subfolders[idx + 1])), idx + 1, subfolders)

\* "if len(duration_timestamps) < len(duration_images): append"
EnsureLength(duration_timestamps, num_duration, t_before, duration_seconds) ==
    IF Len(duration_timestamps) < num_duration
    THEN Append(duration_timestamps, t_before + duration_seconds)
    ELSE duration_timestamps

\* one process_image call with the result of adjust_timestamp
Stamp(path, ts, incident_date, location) ==
    [path |-> path, date |-> adjust_timestamp(ts, incident_date).date,
     t |-> adjust_timestamp(ts, incident_date).t, location |-> location]

\* the timestamps sorted before they are handed out, as the flat allocator does
IncidentCalls_sorted(im, t_start, t_before, duration_timestamps, incident_date, locations) ==
    [i \in 1..(2 + ZipLen(im.duration, duration_timestamps)) |->
        Stamp((<<im.start[1], im.before[1]>> \o im.duration)[i],
              Sorted(<<t_start, t_before>> \o duration_timestamps)[i], incident_date,
              locations[i])]

\* the process_image calls of process_incident, in call order; locations[i] is
\* what random.choice(LOCATIONS) gives for the i-th call
IncidentCalls(im, t_start, t_before, duration_timestamps, incident_date, locations) ==
    <<Stamp(im.start[1], t_start, incident_date, locations[1]),
      Stamp(im.before[1], t_before, incident_date, locations[2])>>
    \o [i \in 1..ZipLen(im.duration, duration_timestamps) |->
            Stamp(im.duration[i], duration_timestamps[i], incident_date,
                  locations[i + 2])]

\* the os.listdir orders of the sub-folders numbered 1..n that are tried:
\* ascending and descending
Orders(n) == {[i \in 1..n |-> i], [i \in 1..n |-> n + 1 - i]}

\* the sub-folders numbered k that are tried: the first one carries the date d
SubFolders(k, d) ==
    {SubFolder(k, IF k = 1 THEN d ELSE NoDate, l) :
        l \in Listings(SubPool(k - 1), MaxSubFiles)}

\* the os.listdir results of an incident folder that are tried, every sub-folder
\* numbered
NumberedLists ==
    UNION {UNION {{s \in [1..n -> UNION {SubFolders(k, d) : k \in 1..n}] :
                     \E o \in Orders(n) : \A i \in 1..n : s[i].number = o[i]} :
                  d \in FolderDates} : n \in SubCounts}

\* the same with the name of the sub-folder listed last starting with no number
NumberlessLists == {[s EXCEPT ![Len(s)].number = NoNumber] : s \in NumberedLists}

SubfolderLists == NumberedLists \cup NumberlessLists

\* process_incident on an incident folder whose listing is one of lists and whose
\* image comparisons have their outcomes in comparisons
ProcessIncidentOn(lists, comparisons) ==
    /\ op = "none"
    /\ raised = "none"
    /\ op' = "incident"
    /\ UNCHANGED <<elsewhere, cfg>>
    /\ \E unsorted \in lists :
        IF ~Sortable(unsorted)
        THEN /\ outcome' = "exception"
             /\ raised' = "AttributeError"
             /\ listing' = unsorted
             /\ folder_date' = NoDate
             /\ grouped' = <<>>
             /\ images' = NoImages
             /\ vd' = <<>> /\ draws' = <<>> /\ alloc' = NoAlloc /\ calls' = <<>>
        ELSE
        /\ listing' = SortSubfolders(unsorted)
        /\ folder_date' = listing'[1].date
        /\ grouped' = [i \in 1..Len(listing') |-> SubCandidates(listing'[i])]
        /\ images' = Scan(NoImages, 0, listing')
        /\ IF images'.start = <<>> \/ images'.before = <<>>
           THEN /\ outcome' = "missing_photo"
                /\ raised' = "none"
                /\ vd' = <<>> /\ draws' = <<>> /\ alloc' = NoAlloc /\ calls' = <<>>
           ELSE IF folder_date' = NoDate
           THEN /\ outcome' = "no_date"
                /\ raised' = "none"
                /\ vd' = <<>> /\ draws' = <<>> /\ alloc' = NoAlloc /\ calls' = <<>>
           ELSE IF ~ValidDate(folder_date') \/ ~TimesParse(cfg)
           THEN /\ outcome' = "exception"
                /\ raised' = "ValueError"
                /\ vd' = <<>> /\ draws' = <<>> /\ alloc' = NoAlloc /\ calls' = <<>>
           ELSE /\ outcome' = "stamped"
                /\ raised' = "none"
                /\ \E v \in [1..(Len(images'.duration) - 1) -> comparisons],
                      rnd \in JitterChoices \X JitterChoices :
                    LET t_start == time_to_seconds(cfg.START_TIME) + rnd[1]
                        t_before == t_start + time_to_seconds(cfg.DURATION_BEFORE_WORKS)
                                    + rnd[2]
                        duration_seconds == time_to_seconds(cfg.DURATION)
                    IN  /\ vd' = v
                        /\ draws' = rnd
                        /\ \E returned \in generate_duration_timestamps(
                               Len(images'.duration), t_before, duration_seconds, v) :
                             alloc' = [t_start |-> t_start, t_before |-> t_before,
                                       returned |-> returned,
                                       duration_timestamps |->
                                          EnsureLength(returned, Len(images'.duration),
                                                       t_before, duration_seconds)]
                        /\ \E locations \in [1..(2 + Len(images'.duration)) ->
                                                random_choice(cfg.LOCATIONS)] :
                             calls' = IncidentCalls(images', alloc'.t_start,
                                 alloc'.t_before, alloc'.duration_timestamps,
                                 strptime(folder_date'), locations)

ProcessIncident == ProcessIncidentOn(SubfolderLists, DiffValues)

----------------------------------------------------------------------------
(* main *)

\* no second run of main
RunsIdle ==
    /\ tree = {}
    /\ runs = <<>>
    /\ overlapped = FALSE
    /\ lost = FALSE
    /\ written = {}

\* downloader.py is not running
DownloaderIdle ==
    /\ topics = <<>>
    /\ loaded = {}
    /\ downloaded_photos = {}
    /\ record_file = {}
    /\ disk = {}
    /\ dl_pc = "idle"
    /\ topic_idx = 0
    /\ msg_idx = 0
    /\ trace = <<>>

Init ==
    /\ cfg \in Configs
    /\ op = "none"
    /\ outcome = "none"
    /\ listing = <<>>
    /\ folder_date = NoDate
    /\ vd = <<>>
    /\ draws = <<>>
    /\ grouped = <<>>
    /\ images = NoImages
    /\ alloc = NoAlloc
    /\ calls = <<>>
    /\ raised = "none"
    /\ DownloaderIdle
    /\ RunsIdle

\* the handler returns to main's loop, which goes on to the next folder: the
\* handler's locals are gone.  An exception a handler raised is caught nowhere: it
\* leaves main and the loop is over
Return ==
    /\ op \in {"folder", "incident"}
    /\ raised = "none"
    /\ op' = "none"
    /\ outcome' = "none"
    /\ listing' = <<>>
    /\ folder_date' = NoDate
    /\ vd' = <<>>
    /\ draws' = <<>>
    /\ grouped' = <<>>
    /\ images' = NoImages
    /\ alloc' = NoAlloc
    /\ calls' = <<>>
    /\ UNCHANGED <<elsewhere, cfg, raised>>

Next == ProcessFolder \/ ProcessIncident \/ Return

Spec == Init /\ [][Next]_vars

----------------------------------------------------------------------------
(* generate_timestamps called on its own, as a test would call it *)

CallGenerateTimestamps ==
    /\ op = "none"
    /\ TimesParse(cfg)
    /\ op' = "generate_timestamps"
    /\ outcome' = "returned"
    /\ UNCHANGED <<elsewhere, cfg, listing, folder_date, images, calls, raised>>
    /\ \E num_images \in 1..MaxImages :
        /\ grouped' = [i \in 1..num_images |-> <<i>>]
        /\ \E v \in [1..(num_images - 1) -> DiffValues],
              rnd \in JitterChoices \X JitterChoices :
            /\ vd' = v
            /\ draws' = rnd
            /\ alloc' \in generate_timestamps(num_images,
                   time_to_seconds(cfg.START_TIME),
                   time_to_seconds(cfg.DURATION_BEFORE_WORKS),
                   time_to_seconds(cfg.DURATION), v, rnd)

CallReturns ==
    /\ op = "generate_timestamps"
    /\ op' = "none"
    /\ outcome' = "none"
    /\ vd' = <<>>
    /\ draws' = <<>>
    /\ grouped' = <<>>
    /\ alloc' = NoAlloc
    /\ UNCHANGED <<elsewhere, cfg, listing, folder_date, images, calls, raised>>

NextAlloc == CallGenerateTimestamps \/ CallReturns

SpecAlloc == Init /\ [][NextAlloc]_vars

----------------------------------------------------------------------------
(* group_by_prefix and the day rollover called on their own, and process_folder on
   folders whose names hold no date *)

CallGroupByPrefix ==
    /\ op = "none"
    /\ op' = "group_by_prefix"
    /\ outcome' = "returned"
    /\ \E l \in Listings(GroupPool, MaxCandidates) :
        /\ listing' = [i \in 1..Len(l) |-> Join(1, l[i])]
        /\ grouped' = <<group_by_prefix(listing')>>
    /\ UNCHANGED <<elsewhere, cfg, folder_date, vd, draws, images, alloc, calls, raised>>

\* group_by_prefix called on the list it returned
CallGroupByPrefixAgain ==
    /\ op = "group_by_prefix"
    /\ Len(grouped) = 1
    /\ grouped' = Append(grouped, group_by_prefix(grouped[1]))
    /\ UNCHANGED <<elsewhere, cfg, op, outcome, listing, folder_date, vd, draws, images, alloc,
                   calls, raised>>

\* one raw timestamp through adjust_timestamp and through the loop of
\* process_folder, from the same base date
CallAdjustTimestamp ==
    /\ op = "none"
    /\ op' = "adjust_timestamp"
    /\ outcome' = "returned"
    /\ \E t \in RawTimes :
        alloc' = [t |-> t,
                  returned |-> <<adjust_timestamp(t, strptime(<<5, 3, 2024>>))>>,
                  inline |-> RollFolder(t, strptime(<<5, 3, 2024>>))]
    /\ UNCHANGED <<elsewhere, cfg, listing, folder_date, vd, draws, grouped, images, calls, raised>>

\* adjust_timestamp called on the (date, seconds) it returned
CallAdjustTimestampAgain ==
    /\ op = "adjust_timestamp"
    /\ Len(alloc.returned) = 1
    /\ alloc' = [alloc EXCEPT !.returned =
                    Append(@, adjust_timestamp(@[1].t, @[1].date))]
    /\ UNCHANGED <<elsewhere, cfg, op, outcome, listing, folder_date, vd, draws, grouped, images,
                   calls, raised>>

ProcessUndatedFolder == ProcessFolderOn(GroupPool, MaxCandidates, {NoDate}, DiffValues)

\* random.randint(a, b): any integer from a to b, both ends included
randint(a, b) == a..b

\* generate_random_time of the days mode, when random.randint gives offset
generate_random_time(offset) == time_to_seconds(cfg.START_TIME) + offset

\* the days mode generating the time of one photograph
CallGenerateRandomTime ==
    /\ op = "none"
    /\ Parses(cfg.START_TIME)
    /\ Parses(cfg.DURATION)
    /\ op' = "generate_random_time"
    /\ outcome' = "returned"
    /\ \E offset \in randint(0, time_to_seconds(cfg.DURATION)) :
        alloc' = [offset |-> offset, random_time |-> generate_random_time(offset)]
    /\ UNCHANGED <<elsewhere, cfg, listing, folder_date, vd, draws, grouped, images, calls, raised>>

FunctionReturns ==
    /\ op # "none"
    /\ raised = "none"
    /\ op' = "none"
    /\ outcome' = "none"
    /\ listing' = <<>>
    /\ folder_date' = NoDate
    /\ grouped' = <<>>
    /\ alloc' = NoAlloc
    /\ UNCHANGED <<elsewhere, cfg, vd, draws, images, calls, raised>>

NextFunctions ==
    \/ CallGroupByPrefix
    \/ CallGroupByPrefixAgain
    \/ CallAdjustTimestamp
    \/ CallAdjustTimestampAgain
    \/ ProcessUndatedFolder
    \/ CallGenerateRandomTime
    \/ FunctionReturns

SpecFunctions == Init /\ [][NextFunctions]_vars

----------------------------------------------------------------------------
(* The handlers on folders that hold stamped images, files that are no images and
   photographs that cannot be compared, with two locations to choose from *)

\* outcomes of a comparison: it raises, or it returns 0.0 or 0.8
Comparisons == {Unreadable, 0, 8}

StampConfigs ==
    {[c EXCEPT !.LOCATIONS = <<"site", "depot">>] :
        c \in {Config(<<8, 0, 0>>, <<0, 10, 0>>, <<1, 0, 0>>, "stage_typed"),
               Config(<<8, 0, 0>>, <<1, 0, 0>>, <<0, 10, 0>>, "stage_typed")}}

\* file names of a folder that was stamped before: two photographs that differ in
\* their extension only, an output of an earlier run, a file that is no image
f_x_png == <<"x", ".", "p", "n", "g">>
f_x_Stamped_png == <<"x", "_", "S", "t", "a", "m", "p", "e", "d", ".", "p", "n", "g">>
f_notes_txt == <<"n", "o", "t", "e", "s", ".", "t", "x", "t">>
StampPool == {f_1_a_jpg, f_x_jpg, f_x_png, f_x_Stamped_png, f_notes_txt}

\* os.listdir results of the three sub-folders of an incident
StampListings(idx) ==
    IF idx = 0 THEN {<<f_x_jpg>>, <<f_x_Stamped_png, f_x_png>>}
    ELSE IF idx = 1
    THEN {<<f_1_a_jpg>>, <<f_x_jpg, f_x_png>>, <<f_notes_txt, f_1_a_jpg, f_x_Stamped_png>>}
    ELSE {<<>>, <<f_x_jpg>>, <<f_x_jpg, f_x_png>>, <<f_x_png, f_x_Stamped_png, f_2_a_jpg>>}

StampLists ==
    {<<SubFolder(1, <<5, 3, 2024>>, a), SubFolder(2, NoDate, b), SubFolder(3, NoDate, c)>> :
        a \in StampListings(0), b \in StampListings(1), c \in StampListings(2)}

InitStamping ==
    /\ cfg \in StampConfigs
    /\ op = "none"
    /\ outcome = "none"
    /\ listing = <<>>
    /\ folder_date = NoDate
    /\ vd = <<>>
    /\ draws = <<>>
    /\ grouped = <<>>
    /\ images = NoImages
    /\ alloc = NoAlloc
    /\ calls = <<>>
    /\ raised = "none"
    /\ DownloaderIdle
    /\ RunsIdle

StampFolder == ProcessFolderOn(StampPool, MaxFiles, {NoDate, <<5, 3, 2024>>}, Comparisons)

StampIncident == ProcessIncidentOn(StampLists, Comparisons)

NextStamping == StampFolder \/ StampIncident \/ Return

SpecStamping == InitStamping /\ [][NextStamping]_vars

----------------------------------------------------------------------------
(* Two runs of main on the same folder tree: one dated leaf folder *)

\* a file of the leaf folder: its name, the run that wrote it (0: it was there
\* before both runs) and what is stamped on it
File(name, by, stamp) == [name |-> name, by |-> by, stamp |-> stamp]

\* a photograph carries no stamp
NoStamp == [date |-> DateOf(NoDate, 0), t |-> 0, location |-> ""]

\* the photographs of the folder, and the folder with the output of an earlier run
Originals == {File(f_1_a_jpg, 0, NoStamp), File(f_2_a_jpg, 0, NoStamp)}
Leftover ==
    File(output_image_path(f_1_a_jpg), 0,
         [date |-> DateOf(<<5, 3, 2024>>, 0), t |-> 30000, location |-> "site"])
Trees == {Originals, Originals \cup {Leftover}}

\* the date in the name of the folder
TreeDate == <<5, 3, 2024>>

Runs == {1, 2}
Other(r) == IF r = 1 THEN 2 ELSE 1

\* every file removed, not only the stamped ones
remove_stamped_images_all(files) == {}

\* remove_stamped_images: the files with "_stamped" in their lower-cased name go
remove_stamped_images(files) ==
    {f \in files : ~Contains(Lower(f.name), s_stamped)}

\* os.listdir of the leaf folder: the names of its files, in any order
listdir(files) ==
    {s \in [1..Cardinality(files) -> {f.name : f \in files}] :
        \A i, j \in 1..Cardinality(files) : i # j => s[i] # s[j]}

\* the process_image calls process_folder can make for the grouped files
CallsFor(grouped_files) ==
    IF grouped_files = <<>> THEN {<<>>}
    ELSE {FolderCalls(grouped_files, FolderTimestamps(a.ret, TreeDate), locations) :
            a \in UNION {generate_timestamps(Len(grouped_files),
                            time_to_seconds(cfg.START_TIME),
                            time_to_seconds(cfg.DURATION_BEFORE_WORKS),
                            time_to_seconds(cfg.DURATION),
                            [k \in 1..(Len(grouped_files) - 1) |-> 0], rnd) :
                         rnd \in JitterChoices \X JitterChoices},
            locations \in [1..Len(grouped_files) -> random_choice(cfg.LOCATIONS)]}

\* the process_image calls process_folder can make for the files of the folder
PossibleCalls(files) ==
    UNION {CallsFor(GroupedFiles(FilterCandidates(l))) : l \in listdir(files)}

\* process_image for one call by run r: the output file is written, over the file
\* of that name if there is one
process_image(files, call, r) ==
    {f \in files : f.name # output_image_path(call.path)}
    \cup {File(output_image_path(call.path), r,
               [date |-> call.date, t |-> call.t, location |-> call.location])}

InitRuns ==
    /\ cfg \in {Config(<<8, 0, 0>>, <<0, 10, 0>>, <<1, 0, 0>>, "stage_typed")}
    /\ op = "none"
    /\ outcome = "none"
    /\ listing = <<>>
    /\ folder_date = NoDate
    /\ vd = <<>>
    /\ draws = <<>>
    /\ grouped = <<>>
    /\ images = NoImages
    /\ alloc = NoAlloc
    /\ calls = <<>>
    /\ raised = "none"
    /\ DownloaderIdle
    /\ tree \in Trees
    /\ runs = [r \in Runs |-> [pc |-> "remove", calls |-> <<>>, next |-> 1]]
    /\ overlapped = FALSE
    /\ lost = FALSE
    /\ written = {}

\* run r takes a step: the runs overlap if the other run is under way
Step(r) ==
    /\ overlapped' = (overlapped \/ runs[Other(r)].pc \notin {"remove", "done"})
    /\ UNCHANGED <<single_vars, download_vars>>

\* main of run r: remove_stamped_images
RemoveStamped(r) ==
    /\ runs[r].pc = "remove"
    /\ tree' = remove_stamped_images(tree)
    /\ lost' = (lost \/ \E f \in tree \ tree' : f.by = Other(r))
    /\ runs' = [runs EXCEPT ![r].pc = "rotate"]
    /\ UNCHANGED written
    /\ Step(r)

\* main of run r: rotate_landscape_photos, which changes the pixels of a landscape
\* image and no name
RotateLandscape(r) ==
    /\ runs[r].pc = "rotate"
    /\ runs' = [runs EXCEPT ![r].pc = "folder"]
    /\ UNCHANGED <<tree, lost, written>>
    /\ Step(r)

\* process_folder of run r up to its last loop: the folder is listed, the candidates
\* are grouped and get their timestamps
AllocateFolder(r) ==
    /\ runs[r].pc = "folder"
    /\ \E cc \in PossibleCalls(tree) :
        runs' = [runs EXCEPT ![r] = [pc |-> IF cc = <<>> THEN "done" ELSE "stamp",
                                     calls |-> cc, next |-> 1]]
    /\ UNCHANGED <<tree, lost, written>>
    /\ Step(r)

\* one turn of the last loop of process_folder of run r
StampNext(r) ==
    /\ runs[r].pc = "stamp"
    /\ tree' = process_image(tree, runs[r].calls[runs[r].next], r)
    /\ written' =
         written \cup {<<output_image_path(runs[r].calls[runs[r].next].path), r>>}
    /\ runs' = [runs EXCEPT ![r].next = @ + 1,
                            ![r].pc = IF runs[r].next = Len(runs[r].calls)
                                      THEN "done" ELSE "stamp"]
    /\ UNCHANGED lost
    /\ Step(r)

NextRuns ==
    \E r \in Runs :
        \/ RemoveStamped(r)
        \/ RotateLandscape(r)
        \/ AllocateFolder(r)
        \/ StampNext(r)

SpecRuns == InitRuns /\ [][NextRuns]_vars

----------------------------------------------------------------------------
(* downloader.py: download_photos *)

\* the messages_list results tried for one topic: up to n messages, each with or
\* without a photo
MessageLists(n) ==
    UNION {{[k \in 1..len |-> [id |-> k, photo |-> b[k]]] : b \in [1..len -> BOOLEAN]} :
           len \in 0..n}

\* the topics tried: one topic, a topic followed by a second one with one photo, or
\* an empty topic followed by another
TopicLists ==
    UNION {{<<m>>, <<m, <<[id |-> 1, photo |-> TRUE]>>>>, <<<<>>, m>>} :
           m \in MessageLists(MaxMessages)}

\* os.path.join(save_path, f"{message.id}.jpg"): the topic's folder and the id
file_path(topic, message) == <<topic, message.id>>

FilePaths(tt) ==
    UNION {{file_path(i, tt[i][k]) : k \in 1..Len(tt[i])} : i \in 1..Len(tt)}

\* the path recorded whether or not the file is there
Recorded_unchecked(dict, files, path) == dict \cup {path}

\* "if os.path.exists(file_path): downloaded_photos[file_path] = True"
Recorded(dict, files, path) == IF path \in files THEN dict \cup {path} ELSE dict

\* save_downloaded_photos: the file gets the dictionary, or the write fails, is
\* logged, and the file stays as it was
save_downloaded_photos(file, data) == {data, file}

\* what client.download_media can do: write the file and return, return without a
\* file, raise, raise after it wrote a part of the file
MediaResults == {"file", "nothing", "raised", "raised_partial"}
Writes(result) == result \in {"file", "raised_partial"}
Raises(result) == result \in {"raised", "raised_partial"}

current_message == topics[topic_idx][msg_idx]
current_path == file_path(topic_idx, current_message)

InitDownload ==
    /\ cfg \in StampConfigs
    /\ op = "none"
    /\ outcome = "none"
    /\ listing = <<>>
    /\ folder_date = NoDate
    /\ vd = <<>>
    /\ draws = <<>>
    /\ grouped = <<>>
    /\ images = NoImages
    /\ alloc = NoAlloc
    /\ calls = <<>>
    /\ raised = "none"
    /\ topics \in TopicLists
    /\ loaded \in {{}, {<<1, 1>>}}
    /\ downloaded_photos = loaded
    /\ record_file = loaded
    /\ disk \in {loaded, loaded \cup {<<1, 2>>}}
    /\ dl_pc = "connect"
    /\ topic_idx = 0
    /\ msg_idx = 0
    /\ trace = [p \in FilePaths(topics) |-> <<>>]
    /\ RunsIdle

\* the variables of timestamp_works.py
handler_vars == <<single_vars, runs_vars>>

\* connect, authorisation, get_entity: any of them can raise, which the outer except
\* logs before the finally clause disconnects
Connect ==
    /\ dl_pc = "connect"
    /\ \/ dl_pc' = "topic" /\ topic_idx' = 1
       \/ dl_pc' = "disconnected" /\ UNCHANGED topic_idx
    /\ UNCHANGED <<handler_vars, topics, loaded, downloaded_photos, record_file, disk,
                   msg_idx, trace>>

\* the head of the loop over the topics: the loop ends, fetching the messages
\* raises, the topic has no photos, or the loop over its messages starts
FetchTopic ==
    /\ dl_pc = "topic"
    /\ IF topic_idx > Len(topics)
       THEN dl_pc' = "disconnected" /\ UNCHANGED <<topic_idx, msg_idx>>
       ELSE \/ dl_pc' = "disconnected" /\ UNCHANGED <<topic_idx, msg_idx>>
            \/ /\ Len(topics[topic_idx]) = 0
               /\ topic_idx' = topic_idx + 1
               /\ UNCHANGED <<dl_pc, msg_idx>>
            \/ /\ Len(topics[topic_idx]) > 0
               /\ dl_pc' = "message"
               /\ msg_idx' = 1
               /\ UNCHANGED topic_idx
    /\ UNCHANGED <<handler_vars, topics, loaded, downloaded_photos, record_file, disk,
                   trace>>

\* a message without a photo, or one whose file path is a key of downloaded_photos
SkipMessage ==
    /\ dl_pc = "message"
    /\ msg_idx <= Len(topics[topic_idx])
    /\ ~current_message.photo \/ current_path \in downloaded_photos
    /\ msg_idx' = msg_idx + 1
    /\ UNCHANGED <<handler_vars, topics, loaded, downloaded_photos, record_file, disk,
                   dl_pc, topic_idx, trace>>

\* the try block: download_media, and the record if it returned; if it raised, the
\* except clause logs and sleeps 60 seconds
DownloadMedia ==
    /\ dl_pc = "message"
    /\ msg_idx <= Len(topics[topic_idx])
    /\ current_message.photo
    /\ current_path \notin downloaded_photos
    /\ \E result \in MediaResults :
        /\ disk' = IF Writes(result) THEN disk \cup {current_path} ELSE disk
        /\ IF Raises(result)
           THEN /\ trace' = [trace EXCEPT ![current_path] = @ \o <<"raised", "sleep">>]
                /\ dl_pc' = "retry"
                /\ UNCHANGED <<downloaded_photos, record_file, msg_idx>>
           ELSE /\ trace' = [trace EXCEPT ![current_path] = Append(@, "returned")]
                /\ downloaded_photos' = Recorded(downloaded_photos, disk', current_path)
                /\ IF current_path \in downloaded_photos'
                   THEN record_file' \in
                            save_downloaded_photos(record_file, downloaded_photos')
                   ELSE UNCHANGED record_file
                /\ msg_idx' = msg_idx + 1
                /\ UNCHANGED dl_pc
    /\ UNCHANGED <<handler_vars, topics, loaded, topic_idx>>

\* the inner try block after the sleep: download_media once more; if it raises
\* again the inner except clause logs and the loop goes on
RetryDownloadMedia ==
    /\ dl_pc = "retry"
    /\ \E result \in MediaResults :
        /\ disk' = IF Writes(result) THEN disk \cup {current_path} ELSE disk
        /\ IF Raises(result)
           THEN /\ trace' = [trace EXCEPT ![current_path] = Append(@, "raised")]
                /\ UNCHANGED <<downloaded_photos, record_file>>
           ELSE /\ trace' = [trace EXCEPT ![current_path] = Append(@, "returned")]
                /\ downloaded_photos' = Recorded(downloaded_photos, disk', current_path)
                /\ IF current_path \in downloaded_photos'
                   THEN record_file' \in
                            save_downloaded_photos(record_file, downloaded_photos')
                   ELSE UNCHANGED record_file
    /\ dl_pc' = "message"
    /\ msg_idx' = msg_idx + 1
    /\ UNCHANGED <<handler_vars, topics, loaded, topic_idx>>

\* after the last message of a topic: the progress is saved, the next topic follows
EndTopic ==
    /\ dl_pc = "message"
    /\ msg_idx > Len(topics[topic_idx])
    /\ record_file' \in save_downloaded_photos(record_file, downloaded_photos)
    /\ dl_pc' = "topic"
    /\ topic_idx' = topic_idx + 1
    /\ msg_idx' = 0
    /\ UNCHANGED <<handler_vars, topics, loaded, downloaded_photos, disk, trace>>

NextDownload ==
    \/ Connect
    \/ FetchTopic
    \/ SkipMessage
    \/ DownloadMedia
    \/ RetryDownloadMedia
    \/ EndTopic

SpecDownload == InitDownload /\ [][NextDownload]_vars

----------------------------------------------------------------------------
(* The configured times in seconds, and the states the claims speak of *)

start_seconds == time_to_seconds(cfg.START_TIME)
duration_before_seconds == time_to_seconds(cfg.DURATION_BEFORE_WORKS)
duration_seconds == time_to_seconds(cfg.DURATION)

\* generate_timestamps has returned, called by process_folder or directly
FlatAllocated ==
    \/ op = "folder" /\ outcome = "stamped"
    \/ op = "generate_timestamps" /\ outcome = "returned"

\* process_folder has stamped its folder
FolderStamped == op = "folder" /\ outcome = "stamped"

\* process_incident has stamped its incident
IncidentStamped == op = "incident" /\ outcome = "stamped"

NonDecreasing(s) == \A i \in 1..(Len(s) - 1) : s[i] <= s[i + 1]

\* (date, seconds of day) pairs in lexicographic order
PairLeq(a, b) ==
    \/ a.date.plus < b.date.plus
    \/ a.date.plus = b.date.plus /\ a.t <= b.t

Abs(x) == IF x < 0 THEN -x ELSE x

----------------------------------------------------------------------------
(* C1..C10: the allocators *)

\* C1: generate_timestamps returns exactly as many timestamps as it was given
\* shots, for every N >= 1.  (Violated: for N = 1 it returns two.)
C1_LengthEqualsInput == FlatAllocated => Len(alloc.ret) = Len(grouped)

\* C2: in flat-folder mode the timestamps in processing order are non-decreasing,
\* as the raw seconds returned by generate_timestamps and as the (date, seconds of
\* day) pairs that process_folder hands to process_image.
C2_FlatNonDecreasing ==
    FolderStamped =>
        /\ NonDecreasing(alloc.ret)
        /\ \A i \in 1..(Len(calls) - 1) : PairLeq(calls[i], calls[i + 1])

\* C2's case: three shots, jitter put t2 before t1, and the sorted list crosses
\* midnight
C2_Witness ==
    /\ FolderStamped
    /\ Len(calls) = 3
    /\ alloc.t2 < alloc.t1
    /\ calls[1].date.plus = 0
    /\ calls[3].date.plus = 1

\* C3: when N > 2 and every compared visual difference is 0, consecutive
\* timestamps of the remaining N-2 shots, starting from t2, differ by
\* duration/(N-2) within a second.  (Violated: they all equal t2.)
C3_EqualWidthFallback ==
    (/\ FlatAllocated
     /\ Len(grouped) > 2
     /\ \A k \in 2..(Len(grouped) - 1) : vd[k] = 0)
    => \A k \in 1..(Len(grouped) - 2) :
        Abs((alloc.rest[k] - (IF k = 1 THEN alloc.t2 ELSE alloc.rest[k - 1]))
            * (Len(grouped) - 2) - duration_seconds) <= Len(grouped) - 2

\* C4 as written: three shots with VisualDifference(1,2) = 0.8 and
\* VisualDifference(2,3) = 0.2 and duration = 3600 get gaps of about 2880 s and
\* 720 s and strictly increasing timestamps, stated for the runs whose jitter leaves
\* t1 before t2.  (Violated: the second gap is 3600.)
C4_Scenario ==
    (/\ FlatAllocated
     /\ Len(grouped) = 3
     /\ vd = <<8, 2>>
     /\ duration_seconds = 3600
     /\ alloc.t1 < alloc.t2)
    => /\ Abs(alloc.ret[2] - alloc.ret[1] - 2880) <= 1
       /\ Abs(alloc.ret[3] - alloc.ret[2] - 720) <= 1
       /\ alloc.ret[1] < alloc.ret[2] /\ alloc.ret[2] < alloc.ret[3]

\* C4 amended: with three shots only VisualDifference(2,3) is compared, so the third
\* timestamp is t2 + 3600 and the first gap is duration_before + jitter whatever
\* VisualDifference(1,2) is, and the three timestamps are strictly increasing unless
\* t1 = t2; the 2880 s / 720 s split, within a second, is what four shots get after
\* t2 when VisualDifference(2,3) = 0.8 and VisualDifference(3,4) = 0.2.
C4_SplitAfterSecondShot ==
    (FlatAllocated /\ duration_seconds = 3600) =>
        /\ (Len(grouped) = 3 /\ vd = <<8, 2>>) =>
              /\ alloc.rest = <<alloc.t2 + 3600>>
              /\ alloc.t2 - alloc.t1 = duration_before_seconds + draws[2]
              /\ alloc.t1 # alloc.t2 =>
                    alloc.ret[1] < alloc.ret[2] /\ alloc.ret[2] < alloc.ret[3]
              /\ alloc.t1 <= alloc.t2 => alloc.ret = <<alloc.t1, alloc.t2, alloc.t2 + 3600>>
        /\ (Len(grouped) = 4 /\ vd[2] = 8 /\ vd[3] = 2) =>
              /\ Abs(alloc.rest[1] - alloc.t2 - 2880) <= 1
              /\ Abs(alloc.rest[2] - alloc.rest[1] - 720) <= 1

\* C4's case: the three-shot scenario, with t1 before t2
C4_Witness ==
    /\ FlatAllocated
    /\ duration_seconds = 3600
    /\ Len(grouped) = 3
    /\ vd = <<8, 2>>
    /\ alloc.t1 < alloc.t2
    /\ alloc.ret[3] - alloc.ret[2] = 3600

\* the sum of the visual differences the claims speak of: those of the shots after
\* the first one, up to the k-th remaining shot
ClaimCum(k) == SumSeq(SubSeq(vd, 2, k + 1))
ClaimTotal == SumSeq(SubSeq(vd, 2, Len(vd)))

\* C5 as written: when N > 2 and total_diff > 0 the k-th remaining shot gets
\* int(t2 + duration * (diff_1 + ... + diff_k) / total_diff), and the gaps sum to
\* duration.  (Violated: the final sort moves t1 behind such a timestamp when jitter
\* puts t1 after it, and float rounding can lose a second.)
C5_Proportional ==
    (FlatAllocated /\ Len(grouped) > 2 /\ ClaimTotal > 0) =>
        /\ \A k \in 1..(Len(grouped) - 2) :
              alloc.ret[k + 2]
                  = Trunc(alloc.t2 * ClaimTotal + duration_seconds * ClaimCum(k), ClaimTotal)
        /\ alloc.ret[Len(grouped)] - alloc.t2 = duration_seconds

\* C5 amended: when N > 2 and total_diff > 0 the k-th timestamp appended after t2 is
\* the exact t2 + duration * (diff_1 + ... + diff_k) / total_diff truncated, or one
\* second off it where that value is a whole number (float rounding), so the gaps
\* sum to duration within a second; shot 0 takes part in no comparison; and the
\* returned list holds these timestamps at the places of the remaining shots
\* whenever t1 <= t2.
C5_ProportionalBeforeSort ==
    (FlatAllocated /\ Len(grouped) > 2 /\ ClaimTotal > 0) =>
        /\ Len(alloc.rest) = Len(grouped) - 2
        /\ \A k \in 1..(Len(grouped) - 2) :
              LET p == alloc.t2 * ClaimTotal + duration_seconds * ClaimCum(k)
              IN  \/ alloc.rest[k] = Trunc(p, ClaimTotal)
                  \/ p % ClaimTotal = 0 /\ Abs(alloc.rest[k] * ClaimTotal - p) <= ClaimTotal
        /\ Abs(alloc.rest[Len(grouped) - 2] - alloc.t2 - duration_seconds) <= 1
        /\ alloc.t1 <= alloc.t2 => alloc.ret = <<alloc.t1, alloc.t2>> \o alloc.rest

\* C5's case: four shots, two unequal positive differences after the first shot
C5_Witness ==
    /\ FlatAllocated
    /\ Len(grouped) = 4
    /\ vd[2] = 2 /\ vd[3] = 8
    /\ alloc.t1 <= alloc.t2
    /\ alloc.rest[1] = alloc.t2 + duration_seconds \div 5

\* C6: every gap allocated to the remaining shots is at least one second, so the
\* timestamps walked from t2 (from t_before, for an incident) are strictly
\* increasing, also when visual differences are 0.  (Violated: a difference of 0
\* gives a gap of 0.)
C6_StrictlyIncreasing ==
    /\ (FlatAllocated /\ Len(grouped) > 2) =>
          \A k \in 1..Len(alloc.rest) :
              alloc.rest[k] > (IF k = 1 THEN alloc.t2 ELSE alloc.rest[k - 1])
    /\ (IncidentStamped /\ Len(images.duration) > 1) =>
          \A k \in 1..Len(alloc.returned) :
              alloc.returned[k] > (IF k = 1 THEN alloc.t_before ELSE alloc.returned[k - 1])

\* C7: a leaf folder with a single shot and start = 28800 is stamped with
\* t1 = start + jitter, which lies in [28800 - 1800, 28800 + 1800], for every
\* duration_before.  (Violated: the shot gets min(t1, t2).)
C7_SingleShot ==
    (FolderStamped /\ Len(grouped) = 1 /\ start_seconds = 28800) =>
        /\ Len(calls) = 1
        /\ calls[1].date.plus = 0
        /\ calls[1].t = start_seconds + draws[1]
        /\ calls[1].t >= 28800 - JitterBound
        /\ calls[1].t <= 28800 + JitterBound

RECURSIVE SumLen(_)
SumLen(ss) == IF ss = <<>> THEN 0 ELSE Len(Head(ss)) + SumLen(Tail(ss))

\* C8: in incident mode every shot that survives grouping in any sub-folder gets one
\* stamp call: process_incident calls process_image as many times as there are
\* grouped shots in all sub-folders, stated for the incidents that are not skipped.
\* (Violated: of the first sub-folder only one shot is stamped.)
C8_OneCallPerShot == IncidentStamped => Len(calls) = SumLen(grouped)

\* C9: in incident mode the timestamps in shot order (start shot, before-work shot,
\* main-window shots) are non-decreasing after day rollover.  (Violated: jitter can
\* put the before-work shot before the start shot.)
C9_IncidentNonDecreasing ==
    IncidentStamped => \A i \in 1..(Len(calls) - 1) : PairLeq(calls[i], calls[i + 1])

\* C10 as written: the main window's start and end get a jitter each, on top of the
\* jitter of the two anchors: four random draws per incident with a main window.
\* (Violated: two.)
C10_FourDraws == (IncidentStamped /\ Len(images.duration) >= 1) => Len(draws) = 4

\* C10 amended: an incident draws two jitters, those of the start and before-work
\* anchors; the main window starts at t_before = start + jitter + duration_before +
\* jitter and ends at exactly t_before + duration, the timestamp of its last shot,
\* with no jitter of its own.
C10_WindowNotJittered ==
    IncidentStamped =>
        /\ Len(draws) = 2
        /\ alloc.t_start = start_seconds + draws[1]
        /\ alloc.t_before = alloc.t_start + duration_before_seconds + draws[2]
        /\ Len(alloc.duration_timestamps) = Len(images.duration)
        /\ Len(images.duration) >= 1 =>
              alloc.duration_timestamps[Len(images.duration)]
                  = alloc.t_before + duration_seconds
        /\ \A k \in 1..Len(alloc.duration_timestamps) :
              alloc.duration_timestamps[k] <= alloc.t_before + duration_seconds + 1

\* C10's case: an incident with one main-window shot, both anchors jittered
C10_Witness ==
    /\ IncidentStamped
    /\ draws[1] # 0 /\ draws[2] # 0
    /\ Len(images.duration) = 1
    /\ calls[3].t = alloc.t_before + duration_seconds

----------------------------------------------------------------------------
(* C11..C20: policies, the grouper, the day rollover, failures *)

\* the characters of the file names in ASCII order, and the order of two names
\* under Python's string comparison
AsciiOrder ==
    <<".", "0", "1", "2", "3", "4", "5", "6", "7", "8", "9", "A", "G", "J", "N", "P",
      "S", "T", "X", "_", "a", "b", "c", "d", "e", "g", "j", "l", "m", "n", "o", "p",
      "r", "s", "t", "x", "y">>
Ord(c) == CHOOSE i \in 1..Len(AsciiOrder) : AsciiOrder[i] = c
RECURSIVE StrLess(_, _)
StrLess(a, b) ==
    IF b = <<>> THEN FALSE
    ELSE IF a = <<>> THEN TRUE
    ELSE IF Head(a) # Head(b) THEN Ord(Head(a)) < Ord(Head(b))
    ELSE StrLess(Tail(a), Tail(b))

RECURSIVE Concat(_)
Concat(ss) == IF ss = <<>> THEN <<>> ELSE Head(ss) \o Concat(Tail(ss))

\* the shots of the flat-concatenation policy: each sub-folder's grouped shots
\* sorted by name, the sub-folders one after the other
FlatShots ==
    Concat([i \in 1..Len(grouped) |->
               SortSeq(grouped[i], LAMBDA a, b : StrLess(a.file, b.file))])

\* the seconds since the midnight of the folder's date that a call was given
Raw(call) == call.date.plus * DaySeconds + call.t

Range(s) == {s[i] : i \in 1..Len(s)}

\* the prefix key of a path
Key(path) == Prefix(Basename(path))

\* group_by_prefix has returned for the first time
Grouped == op = "group_by_prefix" /\ Len(grouped) >= 1

\* C12: group_by_prefix returns paths of its input, one for every prefix key of the
\* input and no two with the same key; the survivor is as long as any candidate of
\* its key and is the first of that length; ["12_a.jpg", "12_longer.jpg", "7.jpg"]
\* gives {"12_longer.jpg", "7.jpg"}.
C12_OneLongestPerKey ==
    Grouped =>
        LET out == grouped[1]
        IN  /\ Range(out) \subseteq Range(listing)
            /\ \A i, j \in 1..Len(out) : i # j => Key(out[i]) # Key(out[j])
            /\ \A p \in Range(listing) : \E i \in 1..Len(out) : Key(out[i]) = Key(p)
            /\ \A i \in 1..Len(out), j \in 1..Len(listing) :
                  Key(listing[j]) = Key(out[i]) =>
                      /\ Len(Basename(listing[j])) <= Len(Basename(out[i]))
                      /\ Len(Basename(listing[j])) = Len(Basename(out[i])) =>
                            \E k \in 1..j : listing[k] = out[i]
            /\ listing = <<Join(1, f_12_a_jpg), Join(1, f_12_longer_jpg), Join(1, f_7_jpg)>>
                  => Range(out) = {Join(1, f_12_longer_jpg), Join(1, f_7_jpg)}

\* C12's case: the example of the specification
C12_Witness ==
    /\ Grouped
    /\ listing = <<Join(1, f_12_a_jpg), Join(1, f_12_longer_jpg), Join(1, f_7_jpg)>>
    /\ grouped[1] = <<Join(1, f_12_longer_jpg), Join(1, f_7_jpg)>>

\* C13: group_by_prefix of the list group_by_prefix returned holds the same paths.
C13_GrouperIdempotent ==
    (op = "group_by_prefix" /\ Len(grouped) = 2) => Range(grouped[2]) = Range(grouped[1])

\* C13's case: the first call dropped a candidate and the second call was made
C13_Witness ==
    /\ op = "group_by_prefix"
    /\ Len(grouped) = 2
    /\ Len(listing) = 3
    /\ Len(grouped[1]) = 2
    /\ grouped[2] = grouped[1]

\* a file name that starts with no digit
NoLeadingDigit(f) == f = <<>> \/ f[1] \notin Digits

\* C14: a file name with no leading digits is its own prefix key, so two distinct
\* such names among the candidates are never collapsed: both survive, in
\* group_by_prefix and in the grouping of process_folder.  (Violated: "_a.jpg" and
\* "_bb.jpg" share the key "" and only "_bb.jpg" survives.)
C14_NoCollapseWithoutDigits ==
    /\ Grouped =>
          \A p, q \in Range(listing) :
              (p # q /\ NoLeadingDigit(Basename(p)) /\ NoLeadingDigit(Basename(q))) =>
                  {p, q} \subseteq Range(grouped[1])
    /\ (op = "folder" /\ outcome # "no_candidates") =>
          \A f, g \in Range(FilterCandidates(listing)) :
              (f # g /\ NoLeadingDigit(f) /\ NoLeadingDigit(g)) =>
                  {f, g} \subseteq Range(grouped)

\* C15: every timestamp handed to process_image, by process_folder and by
\* process_incident, has its seconds of day in [0, 86400), for every configuration
\* whose three times are well-formed and every jitter.  (Violated: START_TIME
\* 00:10:00 and a jitter of -1800 give -1200.)
C15_SecondsOfDay ==
    (FolderStamped \/ IncidentStamped) =>
        \A i \in 1..Len(calls) : calls[i].t >= 0 /\ calls[i].t < DaySeconds

\* the normalizer has returned for the first time
Normalized == op = "adjust_timestamp" /\ Len(alloc.returned) >= 1

\* C16: for t >= 0 the normalizer returns the base date plus t div 86400 days and
\* t - 86400 * (t div 86400) seconds; 90000 gives (D + 1 day, 3600), 86400 gives
\* (D + 1 day, 0), 500 gives (D, 500); days * 86400 + seconds is t for every t; the
\* loop of process_folder returns the same.
C16_RollsWholeDays ==
    Normalized =>
        LET r == alloc.returned[1]
        IN  /\ r.date.base = <<5, 3, 2024>>
            /\ alloc.t >= 0 =>
                  /\ r.date.plus = alloc.t \div DaySeconds
                  /\ r.t = alloc.t - DaySeconds * (alloc.t \div DaySeconds)
            /\ alloc.t = 90000 => r.date.plus = 1 /\ r.t = 3600
            /\ alloc.t = 86400 => r.date.plus = 1 /\ r.t = 0
            /\ alloc.t = 500 => r.date.plus = 0 /\ r.t = 500
            /\ r.date.plus * DaySeconds + r.t = alloc.t
            /\ alloc.inline = r

\* C16's case: a raw timestamp two days past the base date
C16_Witness ==
    /\ Normalized
    /\ alloc.t = 200000
    /\ alloc.returned[1].date.plus = 2
    /\ alloc.returned[1].t = 27200

\* C17: adjust_timestamp of the (date, seconds) that adjust_timestamp returned is
\* that (date, seconds), for every raw timestamp.
C17_NormalizerIdempotent ==
    (op = "adjust_timestamp" /\ Len(alloc.returned) = 2) =>
        alloc.returned[2] = alloc.returned[1]

\* C17's case: the first call rolled a day and the second call was made
C17_Witness ==
    /\ op = "adjust_timestamp"
    /\ Len(alloc.returned) = 2
    /\ alloc.t = 90000
    /\ alloc.returned[2] = [date |-> DateOf(<<5, 3, 2024>>, 1), t |-> 3600]

\* an "HH:MM:SS" string has three fields
MalformedTime(time_str) == Len(time_str) # 3
MalformedConfig ==
    \/ MalformedTime(cfg.START_TIME)
    \/ MalformedTime(cfg.DURATION_BEFORE_WORKS)
    \/ MalformedTime(cfg.DURATION)

\* no jitter was drawn, no allocator was called, no image was stamped
NothingAllocated == draws = <<>> /\ alloc = NoAlloc /\ calls = <<>>

\* C18: with a malformed START_TIME, DURATION_BEFORE_WORKS or DURATION no jitter is
\* drawn, neither allocator is called and no image is stamped in any state of the
\* run, and the first folder or incident that gets as far as the allocation (it
\* has its photos and its date) ends main with the ValueError.
C18_AbortBeforeAllocation ==
    MalformedConfig =>
        /\ NothingAllocated
        /\ outcome # "stamped"
        /\ (op = "folder" /\ outcome \notin {"no_candidates", "no_date"}) =>
              raised = "ValueError"
        /\ (op = "incident" /\ outcome \notin {"missing_photo", "no_date"}) =>
              raised \in {"ValueError", "AttributeError"}

\* C18's case: a folder with photos and a calendar date under a malformed
\* configuration
C18_Witness ==
    /\ MalformedConfig
    /\ op = "folder"
    /\ Len(grouped) = 2
    /\ folder_date = <<5, 3, 2024>>
    /\ raised = "ValueError"
    /\ NothingAllocated

\* C19: a leaf folder without candidates or without a date in its name, and an
\* incident whose sub-folder names hold no date, is skipped: a skip is logged,
\* nothing is allocated or stamped, and main goes on.  (Violated: an incident whose
\* sub-folder name starts with no number ends main with AttributeError, see C20.)
C19_SkippedAndContinued ==
    /\ (op = "folder" /\ (FilterCandidates(listing) = <<>> \/ folder_date = NoDate)) =>
          /\ outcome \in {"no_candidates", "no_date"}
          /\ NothingAllocated
          /\ raised = "none"
    /\ (op = "incident" /\ \A i \in 1..Len(listing) : listing[i].date = NoDate) =>
          /\ outcome \in {"missing_photo", "no_date"}
          /\ NothingAllocated
          /\ raised = "none"

\* C20: whatever one top-level folder holds, no exception leaves main, for every
\* configuration whose three times are well-formed.  (Violated: a date such as
\* 31.02.2024 raises ValueError in strptime, a sub-folder name without a leading
\* number raises AttributeError in the sort key.)
C20_NoCrash == ~MalformedConfig => raised = "none"

----------------------------------------------------------------------------
(* C21..C30 *)

\* a handler has stamped its folder
Stamped == op \in {"folder", "incident"} /\ outcome = "stamped"

\* the number of shots the handler has to stamp
ShotsToStamp == IF op = "folder" THEN Len(grouped) ELSE 2 + Len(images.duration)

\* the walk of the allocator that ran: the anchor it starts from and the
\* timestamps it appended, and the place in vd of the comparison behind its first gap
WalkFrom == IF op = "folder" THEN alloc.t2 ELSE alloc.t_before
WalkOf == IF op = "folder" THEN alloc.rest ELSE alloc.returned
FirstCompared == IF op = "folder" THEN 2 ELSE 1

\* the allocator walked: more than two shots in a leaf folder, more than one shot in
\* the main window of an incident
Walked ==
    \/ op = "folder" /\ Len(grouped) >= 3
    \/ op = "incident" /\ Len(images.duration) >= 2

\* C21: a comparison that fails counts as a difference of 0.0 and stops nothing:
\* whichever comparisons fail, the handler raises nothing and stamps every shot it
\* has to stamp, one timestamp each, and the gap the allocator walks for a failed
\* comparison is zero: the walk stays where it was.
C21_FailureMasked ==
    (Stamped /\ \E k \in 1..Len(vd) : vd[k] = Unreadable) =>
        /\ raised = "none"
        /\ Len(calls) = ShotsToStamp
        /\ op = "incident" => Len(alloc.duration_timestamps) = Len(images.duration)
        /\ Walked =>
              \A k \in 1..Len(WalkOf) :
                  vd[k + FirstCompared - 1] = Unreadable =>
                      WalkOf[k] = (IF k = 1 THEN WalkFrom ELSE WalkOf[k - 1])

\* C21's case: an incident with three main-window shots is stamped with every
\* comparison failing
C21_Witness ==
    /\ Stamped
    /\ Len(vd) = 2
    /\ vd = <<Unreadable, Unreadable>>
    /\ Len(calls) >= 3
    /\ op = "incident"

\* C23: for a dated leaf folder with N >= 1 grouped shots process_image is called N
\* times, the i-th call with the i-th grouped file, so once for each, and with a
\* location that is one of LOCATIONS.
C23_OneTuplePerShot ==
    (FolderStamped /\ Len(grouped) >= 1) =>
        /\ Len(calls) = Len(grouped)
        /\ \A i \in 1..Len(calls) :
              /\ calls[i].path = grouped[i]
              /\ \E j \in 1..Len(cfg.LOCATIONS) : calls[i].location = cfg.LOCATIONS[j]
              /\ calls[i].t \in Int
        /\ \A i, j \in 1..Len(grouped) : i # j => grouped[i] # grouped[j]

\* C23's case: three shots stamped, not all with the same location
C23_Witness ==
    /\ FolderStamped
    /\ Len(grouped) = 3
    /\ Len(calls) = 3
    /\ calls[1].location # calls[3].location

\* the output path process_image computes for a call
OutputOf(call) ==
    IF op = "folder" THEN output_image_path(call.path)
    ELSE output_path_in_subfolder(call.path)

\* C28: the output paths of the process_image calls for different shots differ.
\* (Violated: x.jpg and x.png of one folder are both written to x_stamped.png.)
C28_DistinctOutputs ==
    Stamped =>
        \A i, j \in 1..Len(calls) :
            calls[i].path # calls[j].path => OutputOf(calls[i]) # OutputOf(calls[j])

\* the name contains "_stamped", in any case of letters
HasStampedName(f) == Contains(Lower(f), s_stamped)

\* the files the handler found in the folder, as the paths it would stamp
Listed ==
    IF op = "folder" THEN {listing[i] : i \in 1..Len(listing)}
    ELSE UNION {{Join(listing[k].number, listing[k].files[i]) :
                    i \in 1..Len(listing[k].files)} : k \in 1..Len(listing)}

\* the name of a path the handler uses, and the folder it is in
NameOf(path) == IF op = "folder" THEN path ELSE path.file
FolderOf(path) == IF op = "folder" THEN 0 ELSE path.folder

\* the paths that survived grouping
Survivors ==
    IF op = "folder" THEN Range(grouped)
    ELSE UNION {Range(grouped[k]) : k \in 1..Len(grouped)}

\* C29: every file a handler writes has a name that contains "_stamped" and lies in
\* the folder of the photograph it was made from, which is a listed file of the
\* handler's folder; no file the handler found, and so no candidate, is written; and
\* no file whose name contains "_stamped" (in any case of letters) survives to be
\* stamped.
C29_FrameEffect ==
    (op \in {"folder", "incident"} /\ raised = "none") =>
        /\ \A i \in 1..Len(calls) :
              /\ Contains(NameOf(OutputOf(calls[i])), s_stamped)
              /\ FolderOf(OutputOf(calls[i])) = FolderOf(calls[i].path)
              /\ calls[i].path \in Listed
              /\ OutputOf(calls[i]) \notin Survivors
              /\ \A f \in Listed :
                    ~HasStampedName(NameOf(f)) => OutputOf(calls[i]) # f
        /\ \A f \in Survivors : f \in Listed /\ ~HasStampedName(NameOf(f))

\* C29's case: a folder that holds an output of an earlier run next to its
\* photograph is stamped again
C29_Witness ==
    /\ FolderStamped
    /\ f_x_Stamped_png \in Listed
    /\ f_x_jpg \in Listed
    /\ Len(calls) >= 2

\* the names in the folder and what is stamped on them
Content(files) == {[name |-> f.name, stamp |-> f.stamp] : f \in files}

\* the directories one run of main alone can leave
SingleRunResults ==
    {Content(Originals)
     \cup {[name |-> output_image_path(cc[i].path),
            stamp |-> [date |-> cc[i].date, t |-> cc[i].t, location |-> cc[i].location]] :
           i \in 1..Len(cc)} :
     cc \in PossibleCalls(Originals)}

BothDone == tree # {} /\ \A r \in Runs : runs[r].pc = "done"

\* the stamp on the output of the photograph f
StampOn(f) == (CHOOSE g \in tree : g.name = output_image_path(f)).stamp

\* C26: two runs of main that do not overlap leave a directory that one run alone
\* can leave; runs that overlap need not (C26_Witness): an output of one run is
\* deleted by the other's remove_stamped_images, or a shot is stamped by both, and
\* the directory left is one no single run leaves.
C26_SequentialRunsAgree ==
    (runs # <<>> /\ (\A r \in Runs : runs[r].pc = "done") /\ ~overlapped) =>
        Content(tree) \in SingleRunResults

\* C26's case: both runs are over, a shot was stamped by both runs or an output was
\* deleted by the other run, and the two outputs left carry times further apart than
\* DURATION_BEFORE_WORKS plus the largest jitter, which no single run gives two shots
C26_Witness ==
    /\ BothDone
    /\ overlapped
    /\ \/ lost
       \/ \E f \in tree : <<f.name, 1>> \in written /\ <<f.name, 2>> \in written
    /\ Content(tree) \notin SingleRunResults
    /\ \A f \in Originals : \E g \in tree : g.name = output_image_path(f.name)
    /\ Abs(StampOn(f_1_a_jpg).t - StampOn(f_2_a_jpg).t)
         > duration_before_seconds + JitterBound
    /\ (CHOOSE g \in tree : g.name = output_image_path(f_1_a_jpg)).by
         # (CHOOSE g \in tree : g.name = output_image_path(f_2_a_jpg)).by

\* the download_media invocations recorded for a file path
RECURSIVE MediaCalls(_)
MediaCalls(tr) ==
    IF tr = <<>> THEN 0
    ELSE (IF Head(tr) \in {"returned", "raised"} THEN 1 ELSE 0) + MediaCalls(Tail(tr))

\* the loop over the messages has gone past message k of topic i
Passed(i, k) ==
    \/ i < topic_idx
    \/ i = topic_idx /\ dl_pc = "message" /\ k < msg_idx

\* C30: in one run of download_photos, for every photo message: download_media is
\* invoked at most twice, a second time only after the first raised and the 60
\* seconds were waited, and never when its file path was a key of
\* downloaded_photos; a path is added to downloaded_photos, and saved, only when its
\* file is on disk; and the loop never ends inside a topic: whatever a download did,
\* every message the loop has passed was downloaded, or skipped as known.
C30_Download ==
    dl_pc # "idle" =>
        /\ \A p \in FilePaths(topics) :
              /\ MediaCalls(trace[p]) <= 2
              /\ MediaCalls(trace[p]) = 2 =>
                    SubSeq(trace[p], 1, 2) = <<"raised", "sleep">>
              /\ Len(trace[p]) >= 2 => trace[p][1] = "raised"
              /\ p \in loaded => trace[p] = <<>>
        /\ (downloaded_photos \ loaded) \subseteq disk
        /\ (record_file \ loaded) \subseteq disk
        /\ record_file \subseteq downloaded_photos
        /\ dl_pc = "disconnected" => msg_idx = 0
        /\ \A i \in 1..Len(topics) : \A k \in 1..Len(topics[i]) :
              (Passed(i, k) /\ topics[i][k].photo /\ file_path(i, topics[i][k]) \notin loaded)
                  => MediaCalls(trace[file_path(i, topics[i][k])]) >= 1

\* C30's case: the first photo failed twice, the second was fetched at the second
\* try and recorded, and the run went on to the end of its topics
C30_Witness ==
    /\ dl_pc = "disconnected"
    /\ topic_idx > Len(topics)
    /\ Len(topics) = 2
    /\ Len(topics[1]) = 2
    /\ trace[<<1, 1>>] = <<"raised", "sleep", "raised">>
    /\ trace[<<1, 2>>] = <<"raised", "sleep", "returned">>
    /\ <<1, 2>> \in record_file
    /\ <<1, 1>> \notin downloaded_photos
    /\ trace[<<2, 1>>] = <<"returned">>

\* a <= b for file names compared without regard to case
LeqNoCase(a, b) == ~StrLess(Lower(b), Lower(a))

\* C22: the shots reach the allocator in case-insensitive lexicographic file name
\* order, whatever order the directory listing had: the calls of a leaf folder are
\* in that order, and so are the grouped shots of every sub-folder of an incident.
\* (Violated: the shots keep the order of the listing.)
C22_SortedByName ==
    /\ FolderStamped =>
          \A i, j \in 1..Len(calls) : i < j => LeqNoCase(calls[i].path, calls[j].path)
    /\ IncidentStamped =>
          \A k \in 1..Len(grouped) : \A i, j \in 1..Len(grouped[k]) :
              i < j => LeqNoCase(Basename(grouped[k][i]), Basename(grouped[k][j]))

\* C25: in the days mode the time generated for a photograph lies in the half-open
\* window: start_seconds <= t < start_seconds + duration_seconds.
\* (Violated: random.randint includes its upper end.)
C25_HalfOpenWindow ==
    (op = "generate_random_time" /\ outcome = "returned") =>
        /\ start_seconds <= alloc.random_time
        /\ alloc.random_time < start_seconds + duration_seconds

\* the grouped files of the sub-folder at place k of the sorted list, none if the
\* incident has no such sub-folder
GroupedAt(k) == IF k <= Len(grouped) THEN grouped[k] ELSE <<>>

Is1(path) == StartsWith(Basename(path), <<"1", "_">>)
Is2(path) == StartsWith(Basename(path), <<"2", "_">>)

\* the file at place j of the second sub-folder is a before-work shot: it is named
\* 1_*, or it is named neither 1_* nor 2_* and every file before it is named 2_*
BeforeAt(j) ==
    \/ Is1(GroupedAt(2)[j])
    \/ /\ ~Is2(GroupedAt(2)[j])
       /\ \A i \in 1..(j - 1) : Is2(GroupedAt(2)[i])

\* the files of the second sub-folder from place j on that are (want = TRUE) or are
\* not (want = FALSE) before-work shots
RECURSIVE SelectPlaces(_, _)
SelectPlaces(j, want) ==
    IF j > Len(GroupedAt(2)) THEN <<>>
    ELSE (IF BeforeAt(j) = want THEN <<GroupedAt(2)[j]>> ELSE <<>>)
         \o SelectPlaces(j + 1, want)

\* C24: with the sub-folders in the order of their leading numbers, the first
\* one gives its first grouped file as the one start shot; in the second one a file
\* named 1_* is a before-work shot, a file named 2_* a main-window shot, any other
\* file a before-work shot if there is none yet and a main-window shot otherwise;
\* every grouped file of the later sub-folders is a main-window shot; the incident
\* without a start shot or without a before-work shot is logged and skipped with
\* nothing stamped.
C24_StageClassification ==
    (op = "incident" /\ raised # "AttributeError") =>
        /\ \A i \in 1..(Len(listing) - 1) : listing[i].number <= listing[i + 1].number
        /\ images.start = (IF GroupedAt(1) = <<>> THEN <<>> ELSE <<GroupedAt(1)[1]>>)
        /\ images.before = SelectPlaces(1, TRUE)
        /\ images.duration =
              SelectPlaces(1, FALSE)
              \o Concat([k \in 1..(Len(grouped) - 2) |-> grouped[k + 2]])
        /\ (images.start = <<>> \/ images.before = <<>>) =>
              outcome = "missing_photo" /\ calls = <<>> /\ draws = <<>>
        /\ outcome = "missing_photo" => (images.start = <<>> \/ images.before = <<>>)

\* C24's case: the second sub-folder holds a file that is neither 1_* nor 2_* after
\* a 2_* file, and a third sub-folder holds photos
C24_Witness ==
    /\ IncidentStamped
    /\ Len(grouped) = 3
    /\ Len(grouped[2]) = 2
    /\ Is2(grouped[2][1])
    /\ images.before = <<grouped[2][2]>>
    /\ Len(images.duration) = 1 + Len(grouped[3])
    /\ Len(grouped[3]) = 2

\* C27: with k >= 1 main-window shots the timestamps handed out for them are k, each
\* lies in [t_before, t_before + duration], and the last one is t_before + duration.
\* (Violated: a negative timestamp is truncated towards zero and can end one second
\* after t_before + duration.)
C27_MainWindowBounds ==
    (IncidentStamped /\ Len(images.duration) >= 1) =>
        /\ Len(alloc.duration_timestamps) = Len(images.duration)
        /\ \A k \in 1..Len(alloc.duration_timestamps) :
              /\ alloc.duration_timestamps[k] >= alloc.t_before
              /\ alloc.duration_timestamps[k] <= alloc.t_before + duration_seconds
        /\ alloc.duration_timestamps[Len(images.duration)]
              = alloc.t_before + duration_seconds

====
